---- MODULE Spec2Model ----
(***************************************************************************)
(* State-machine model of the SFNO layer building blocks                   *)
(* (paddle_harmonics/examples/sfno/models/layers.py) and of the Gaussian   *)
(* random field sampler (ppsci/arch/paddle_harmonics/random_fields.py).    *)
(*                                                                         *)
(* Tensors are records: a dtype, a shape, a complex flag, one leaf value   *)
(* (fixed point) and the sequence of library operations applied to the     *)
(* leaf.  Library primitives (rfft2, irfft2, einsum contractions, isht)    *)
(* are recorded in that sequence, with the shape they produce.             *)
(***************************************************************************)
EXTENDS Integers, Sequences, FiniteSets, TLC

VARIABLES
    conv,      \* the spectral convolution operator object
    call,      \* the last SpectralConvS2.forward call
    layer,     \* the DropPath layer object
    dpcall,    \* the last drop_path call
    grf,       \* the GaussianRandomFieldS2 object
    grfcall,   \* the last GaussianRandomFieldS2.forward call
    buf,       \* the buffer trunc_normal_ fills
    tn,        \* the last trunc_normal_ call
    fft,       \* the RealFFT2 object
    fftcall,   \* the last RealFFT2.forward call
    mlp,       \* the MLP object
    mlpcall    \* the last MLP.forward call

convVars == <<conv, call>>
dropVars == <<layer, dpcall>>
grfVars == <<grf, grfcall>>
tnVars == <<buf, tn>>
fftVars == <<fft, fftcall>>
mlpVars == <<mlp, mlpcall>>
vars == <<conv, call, layer, dpcall, grf, grfcall, buf, tn, fft, fftcall, mlp, mlpcall>>

-----------------------------------------------------------------------------
(* Bounds of the model *)

MaxLat == 3
MaxLon == 2
MaxCh == 2
MaxVal == 1
Batch == 2
MaxDropBatch == 2
ProbSteps == 2
RandSteps == 2
MaxGrfLat == 2
MaxAlphaHalves == 4
MaxTauRoot == 2
MaxSigma == 2
MaxRadius == 1
MaxNoise == 2
MaxN == 2
MaxBuf == 2
MaxMean == 2
MaxStdHalves == 2
MaxCut == 2

-----------------------------------------------------------------------------
(* Python helpers *)

Min(a, b) == IF a <= b THEN a ELSE b

\* Python `x or y` on an optional integer (None and 0 are falsy, written 0).
PyOr(x, y) == IF x = 0 THEN y ELSE x

CeilHalf(n) == (n + 1) \div 2
FloorHalf(n) == n \div 2

\* len(seq[:k]) for k >= 0 on an axis of length n.
PrefixLen(n, k) == Min(k, n)

\* len(seq[-k:]) for k >= 0 on an axis of length n; -0 is 0, so seq[-0:] is
\* the whole axis.
SuffixLen(n, k) == IF k = 0 THEN n ELSE Min(k, n)

\* Class hierarchy of the layers: every layer class derives directly from
\* nn.Layer.
Bases ==
    [ SpectralConvS2 |-> "Layer",
      FactorizedSpectralConvS2 |-> "Layer",
      Layer |-> "object",
      object |-> "object" ]

\* The method resolution order of a class.
RECURSIVE Mro(_)
Mro(c) == IF c = "object" THEN <<"object">> ELSE <<c>> \o Mro(Bases[c])

\* super(T, obj) is legal only when type(obj) is T or a subclass of it;
\* otherwise it raises TypeError.
SuperIsLegal(T, cls) == \E i \in 1..Len(Mro(cls)) : Mro(cls)[i] = T

-----------------------------------------------------------------------------
(* Floating-point scalars: fixed point with Unit steps per 1.0, plus the     *)
(* IEEE specials.                                                           *)

Unit == 10 * 10 * 10

Fin(v) == [k |-> "fin", v |-> v]
Inf(sign) == [k |-> "inf", v |-> sign]
NaN == [k |-> "nan", v |-> 0]

Sign(v) == IF v > 0 THEN 1 ELSE IF v < 0 THEN -1 ELSE 0

\* a / d for a finite divisor d: x/0 is +-inf, 0/0 is nan (no exception is
\* raised on tensors).
FDiv(a, d) ==
    IF a.k = "nan" THEN NaN
    ELSE IF a.k = "inf" THEN (IF d = 0 THEN Inf(a.v) ELSE Inf(a.v * Sign(d)))
    ELSE IF d = 0 THEN (IF a.v = 0 THEN NaN ELSE Inf(Sign(a.v)))
    ELSE Fin((a.v * Unit) \div d)

\* a * m for a finite factor m: inf * 0 is nan.
FMul(a, m) ==
    IF a.k = "nan" THEN NaN
    ELSE IF a.k = "inf" THEN (IF m = 0 THEN NaN ELSE Inf(a.v * Sign(m)))
    ELSE Fin((a.v * m) \div Unit)

\* a + m for a finite addend m.
FAdd(a, m) == IF a.k = "fin" THEN Fin(a.v + m) ELSE a

\* floor of a finite fixed-point value.
Floor(v) == (v \div Unit) * Unit

-----------------------------------------------------------------------------
(* Tensors *)

Dtypes == {"float64", "float32", "float16"}

\* Spacing of the representable values of a dtype, in units of the finest one.
Step(dt) == CASE dt = "float64" -> 1 [] dt = "float32" -> 2 [] OTHER -> 4

NoTensor == [dtype |-> "none", shape |-> <<>>, cplx |-> FALSE, val |-> 0, hist |-> <<>>]

Tensor(dt, shape, v) ==
    [dtype |-> dt, shape |-> shape, cplx |-> FALSE, val |-> v, hist |-> <<>>]

Applied(x, op, par, shape, cplx) ==
    [x EXCEPT !.hist = Append(@, [op |-> op, par |-> par]),
              !.shape = shape, !.cplx = cplx]

\* Tensor.to(dtype) / Tensor.astype(dtype): the same tensor when the dtype is
\* already the requested one; a narrowing cast rounds, a widening cast is exact.
Cast(x, dt) ==
    IF x.dtype = dt THEN x
    ELSE IF Step(dt) <= Step(x.dtype) THEN [x EXCEPT !.dtype = dt]
    ELSE IF x.hist = <<>>
         THEN [x EXCEPT !.dtype = dt, !.val = (@ \div Step(dt)) * Step(dt)]
         ELSE [Applied(x, "round", <<Step(dt)>>, x.shape, x.cplx) EXCEPT !.dtype = dt]

\* paddle.as_real / paddle.as_complex: a trailing axis of size 2.
AsReal(x) == [x EXCEPT !.shape = @ \o <<2>>, !.cplx = FALSE]
AsComplex(x) == [x EXCEPT !.shape = SubSeq(@, 1, Len(@) - 1), !.cplx = TRUE]

\* Broadcasting of two shapes, aligned at the trailing axes; <<>> stands for
\* "not broadcastable" (the shapes modelled are never empty).
RECURSIVE Broadcast(_, _)
Broadcast(s, t) ==
    IF Len(s) < Len(t) THEN Broadcast(t, s)
    ELSE IF Len(t) = 0 THEN s
    ELSE LET a == s[Len(s)]
             b == t[Len(t)]
             rest == Broadcast(SubSeq(s, 1, Len(s) - 1), SubSeq(t, 1, Len(t) - 1))
         IN  IF a # b /\ a # 1 /\ b # 1 THEN <<>>
             ELSE IF Len(s) > 1 /\ rest = <<>> THEN <<>>
             ELSE rest \o <<IF a = 1 THEN b ELSE a>>

-----------------------------------------------------------------------------
(* RealFFT2 / InverseRealFFT2 *)

RealFFT2_init(nlat, nlon, lmax, mmax) ==
    [nlat |-> nlat, nlon |-> nlon,
     lmax |-> PyOr(lmax, nlat), mmax |-> PyOr(mmax, nlon \div 2 + 1)]

InverseRealFFT2_init(nlat, nlon, lmax, mmax) ==
    [nlat |-> nlat, nlon |-> nlon,
     lmax |-> PyOr(lmax, nlat), mmax |-> PyOr(mmax, nlon \div 2 + 1)]

\* rfft2 over the last two axes, then the row/column truncation.
RealFFT2_forward(self, x) ==
    LET rows == x.shape[3]
        cols == x.shape[4] \div 2 + 1
        kept == PrefixLen(rows, CeilHalf(self.lmax)) + SuffixLen(rows, FloorHalf(self.lmax))
    IN  Applied(x, "RealFFT2", <<self.lmax, self.mmax>>,
                <<x.shape[1], x.shape[2], kept, PrefixLen(cols, self.mmax)>>, TRUE)

\* irfft2 with s = (nlat, nlon).
InverseRealFFT2_forward(self, x) ==
    Applied(x, "InverseRealFFT2", <<self.nlat, self.nlon>>,
            <<x.shape[1], x.shape[2], self.nlat, self.nlon>>, FALSE)

-----------------------------------------------------------------------------
(* SpectralConvS2 / FactorizedSpectralConvS2 *)

OperatorTypes == {"diagonal", "block-diagonal", "driscoll-healy"}

NoArgs ==
    [fwd |-> RealFFT2_init(1, 1, 0, 0), inv |-> InverseRealFFT2_init(1, 1, 0, 0),
     in_channels |-> 0, out_channels |-> 0, operator_type |-> "none",
     bias |-> FALSE, separable |-> FALSE]

\* The attributes an operator object has when none was ever set.
NoConv ==
    [cls |-> "none", status |-> "none", err |-> "", args |-> NoArgs,
     modes_lat |-> 0, modes_lon |-> 0, scale_residual |-> FALSE,
     weight |-> <<>>, has_bias |-> FALSE]

Raised(cls, args, err) ==
    [NoConv EXCEPT !.cls = cls, !.status = "error", !.err = err, !.args = args]

\* scale_residual: the two transforms differ in nlat or in nlon.
ScaleResidual(fwd, inv) == (fwd.nlat # inv.nlat) \/ (fwd.nlon # inv.nlon)

\* Mutant of OperatorAxes: an unknown operator_type falls through to the
\* default structure instead of raising.
OperatorAxes_Fallthrough(operator_type, modes_lat, modes_lon) ==
    CASE operator_type = "diagonal" -> <<modes_lat, modes_lon>>
      [] operator_type = "block-diagonal" -> <<modes_lat, modes_lon, modes_lon>>
      [] OTHER -> <<modes_lat>>

\* The if/elif chain on operator_type: the axes appended to weight_shape, or
\* <<>> for the else branch (raise NotImplementedError).
OperatorAxes(operator_type, modes_lat, modes_lon) ==
    CASE operator_type = "diagonal" -> <<modes_lat, modes_lon>>
      [] operator_type = "block-diagonal" -> <<modes_lat, modes_lon, modes_lon>>
      [] operator_type = "driscoll-healy" -> <<modes_lat>>
      [] OTHER -> <<>>

\* scale * paddle.as_real(paddle.randn(weight_shape, complex64)) with scale of
\* shape [modes_lat, 2]: the shape of the product, <<>> when the two shapes do
\* not broadcast.
DenseWeightShape(weight_shape, modes_lat) ==
    Broadcast(<<modes_lat, 2>>, weight_shape \o <<2>>)

SpectralConvS2_init(args) ==
    LET fwd == args.fwd
        inv == args.inv
        modes_lat == inv.lmax
        modes_lon == inv.mmax
        axes == OperatorAxes(args.operator_type, modes_lat, modes_lon)
        weight_shape == <<args.out_channels, args.in_channels>> \o axes
        weight == DenseWeightShape(weight_shape, modes_lat)
    IN  IF inv.lmax # modes_lat \/ inv.mmax # modes_lon
        THEN Raised("SpectralConvS2", args, "AssertionError")
        ELSE IF axes = <<>>
        THEN Raised("SpectralConvS2", args, "NotImplementedError")
        ELSE IF weight = <<>>
        THEN Raised("SpectralConvS2", args, "ValueError")
        ELSE [cls |-> "SpectralConvS2", status |-> "ok", err |-> "", args |-> args,
              modes_lat |-> modes_lat, modes_lon |-> modes_lon,
              scale_residual |-> ScaleResidual(fwd, inv),
              weight |-> weight, has_bias |-> args.bias]

\* FactorizedTensor.new(weight_shape, ...): the factorized weight has the
\* requested shape.
FactorizedWeightShape(weight_shape) == weight_shape

FactorizedSpectralConvS2_init(args) ==
    LET fwd == args.fwd
        inv == args.inv
        modes_lat == inv.lmax
        modes_lon == inv.mmax
        axes == OperatorAxes(args.operator_type, modes_lat, modes_lon)
        weight_shape ==
            <<args.out_channels>>
              \o (IF args.separable THEN <<>> ELSE <<args.in_channels>>) \o axes
    IN  IF ~SuperIsLegal("SpectralConvS2", "FactorizedSpectralConvS2")
        THEN Raised("FactorizedSpectralConvS2", args, "TypeError")
        ELSE IF inv.lmax # modes_lat \/ inv.mmax # modes_lon
        THEN Raised("FactorizedSpectralConvS2", args, "AssertionError")
        ELSE IF axes = <<>>
        THEN Raised("FactorizedSpectralConvS2", args, "NotImplementedError")
        ELSE [cls |-> "FactorizedSpectralConvS2", status |-> "ok", err |-> "",
              args |-> args, modes_lat |-> modes_lat, modes_lon |-> modes_lon,
              scale_residual |-> ScaleResidual(fwd, inv),
              weight |-> FactorizedWeightShape(weight_shape), has_bias |-> args.bias]

\* The contraction selected by operator_type, on the real view x of the
\* coefficients (b, i, x, y, 2) and the real view w of the weight:
\*   diagonal        bixy,kixy  -> bkxy
\*   block-diagonal  bixy,kixyz -> bkxz
\*   driscoll-healy  bixy,kix   -> bkxy
\* The shape of the result, <<>> when the operands do not fit.
ContractShape(operator_type, xs, ws) ==
    CASE operator_type = "diagonal" ->
            IF Len(ws) = 5 /\ ws[2] = xs[2] /\ ws[3] = xs[3] /\ ws[4] = xs[4]
            THEN <<xs[1], ws[1], xs[3], xs[4], 2>> ELSE <<>>
      [] operator_type = "block-diagonal" ->
            IF Len(ws) = 6 /\ ws[2] = xs[2] /\ ws[3] = xs[3] /\ ws[4] = xs[4]
            THEN <<xs[1], ws[1], xs[3], ws[5], 2>> ELSE <<>>
      [] operator_type = "driscoll-healy" ->
            IF Len(ws) = 4 /\ ws[2] = xs[2] /\ ws[3] = xs[3]
            THEN <<xs[1], ws[1], xs[3], xs[4], 2>> ELSE <<>>
      [] OTHER -> <<>>

NoCall ==
    [status |-> "none", err |-> "", x |-> NoTensor, out |-> NoTensor,
     residual |-> NoTensor]

\* Mutant of Residual: the residual is never recomputed on the output grid.
Residual_NeverRescaled(self, x32, coeffs) == x32

\* The residual returned by forward: the cast input, replaced by the inverse
\* transform of the coefficients when scale_residual is set.
Residual(self, x32, coeffs) ==
    IF self.scale_residual THEN InverseRealFFT2_forward(self.args.inv, coeffs) ELSE x32

SpectralConvS2_forward(self, x) ==
    LET dtype == x.dtype
        x32 == Cast(x, "float32")
        coeffs == RealFFT2_forward(self.args.fwd, x32)
        residual == Residual(self, x32, coeffs)
        xr == AsReal(coeffs)
        cs == ContractShape(self.args.operator_type, xr.shape, self.weight)
        contracted == AsComplex(Applied(xr, self.args.operator_type, self.weight, cs, FALSE))
        y == InverseRealFFT2_forward(self.args.inv, contracted)
        yb == IF self.has_bias THEN Applied(y, "bias", <<1, self.args.out_channels, 1, 1>>,
                                            y.shape, FALSE)
              ELSE y
    IN  IF cs = <<>>
        THEN [NoCall EXCEPT !.status = "error", !.err = "ValueError", !.x = x]
        ELSE [status |-> "ok", err |-> "", x |-> x, out |-> Cast(yb, dtype),
              residual |-> residual]

-----------------------------------------------------------------------------
(* drop_path / DropPath *)

\* A drop probability that was left at None (DropPath's default).
None == -1

NoLayer == [status |-> "none", drop_prob |-> 0, training |-> FALSE]

NoDropCall ==
    [status |-> "none", err |-> "", x |-> <<>>, drop_prob |-> 0, training |-> FALSE,
     out |-> <<>>, draws |-> 0]

\* Mutant of Bypass: the identity path is taken only when both conditions hold.
Bypass_Both(drop_prob, training) == drop_prob = 0 /\ ~training

\* drop_prob == 0.0 or not training
Bypass(drop_prob, training) == drop_prob = 0 \/ ~training

\* paddle.rand(shape) + keep_prob, floored: the per-sample keep mask.
RandomTensor(keep_prob, u) == [i \in 1..Len(u) |-> Floor(keep_prob + u[i])]

\* drop_path(x, drop_prob, training); x holds one value per sample, u is what
\* paddle.rand returns when it is called (one uniform draw per sample).
drop_path(x, drop_prob, training, u) ==
    IF Bypass(drop_prob, training)
    THEN [status |-> "ok", err |-> "", x |-> x, drop_prob |-> drop_prob,
          training |-> training, out |-> x, draws |-> 0]
    ELSE IF drop_prob = None
    THEN [NoDropCall EXCEPT !.status = "error", !.err = "TypeError", !.x = x,
                            !.drop_prob = drop_prob, !.training = training]
    ELSE LET keep_prob == Unit - drop_prob
             random_tensor == RandomTensor(keep_prob, u)
             output == [i \in 1..Len(x) |-> FMul(FDiv(x[i], keep_prob), random_tensor[i])]
         IN  [status |-> "ok", err |-> "", x |-> x, drop_prob |-> drop_prob,
              training |-> training, out |-> output, draws |-> Len(u)]

DropPath_init(drop_prob) == [status |-> "ok", drop_prob |-> drop_prob, training |-> TRUE]

DropPath_forward(self, x, u) == drop_path(x, self.drop_prob, self.training, u)

\* Inputs: probabilities in [0, 1], uniform draws in [0, 1), signals with
\* negative, zero and positive samples.
Probs == { (i * Unit) \div ProbSteps : i \in 0..ProbSteps }
Uniforms == { (i * Unit) \div RandSteps : i \in 0..(RandSteps - 1) }
Samples == { Fin(-Unit), Fin(0), Fin(Unit) }
DropSignals == UNION { [1..n -> Samples] : n \in 1..MaxDropBatch }

ConstructDropPath ==
    /\ layer.status = "none"
    /\ \E p \in Probs \cup {None} : layer' = DropPath_init(p)
    /\ UNCHANGED <<dpcall, convVars, grfVars, tnVars, fftVars, mlpVars>>

\* Layer.train() / Layer.eval(): the training flag DropPath.forward reads.
SetTraining ==
    /\ layer.status = "ok"
    /\ \E b \in BOOLEAN : layer' = [layer EXCEPT !.training = b]
    /\ UNCHANGED <<dpcall, convVars, grfVars, tnVars, fftVars, mlpVars>>

ForwardDropPath ==
    /\ layer.status = "ok"
    /\ \E x \in DropSignals : \E u \in [1..Len(x) -> Uniforms] :
        dpcall' = DropPath_forward(layer, x, u)
    /\ UNCHANGED <<layer, convVars, grfVars, tnVars, fftVars, mlpVars>>

\* drop_path called as a function where no layer wraps it, with any arguments
\* (its defaults are drop_prob = 0.0 and training = False).
CallDropPath ==
    /\ layer.status = "none"
    /\ \E x \in DropSignals, p \in Probs, t \in BOOLEAN :
        \E u \in [1..Len(x) -> Uniforms] :
            dpcall' = drop_path(x, p, t, u)
    /\ UNCHANGED <<layer, convVars, grfVars, tnVars, fftVars, mlpVars>>

\* C6: whenever drop_prob is 0 or training is false, drop_path (called
\* directly or through DropPath.forward) returns its input unmodified and
\* draws no random number.
C6_IdentityWhenInactive ==
    ( dpcall.status # "none" /\ (dpcall.drop_prob = 0 \/ ~dpcall.training) ) =>
        /\ dpcall.status = "ok"
        /\ dpcall.out = dpcall.x
        /\ dpcall.draws = 0

\* C6 witness: a DropPath layer in training mode with drop_prob = 0 returned
\* a non-zero input.
C6_Witness ==
    /\ layer.status = "ok"
    /\ layer.training
    /\ layer.drop_prob = 0
    /\ dpcall.status = "ok"
    /\ dpcall.training
    /\ \E i \in 1..Len(dpcall.x) : dpcall.x[i] # Fin(0)
    /\ dpcall.out = dpcall.x

\* C7: with drop_prob = 1 and training = true every element of the output of
\* drop_path is zero.
C7_AllZeroWhenEverythingDropped ==
    ( dpcall.status = "ok" /\ dpcall.drop_prob = Unit /\ dpcall.training ) =>
        \A i \in 1..Len(dpcall.out) : dpcall.out[i] = Fin(0)

-----------------------------------------------------------------------------
(* GaussianRandomFieldS2 *)

RECURSIVE Pow(_, _)
Pow(b, e) == IF e = 0 THEN 1 ELSE b * Pow(b, e - 1)

\* Constructor arguments.  alpha is given in halves (alpha = alpha_h / 2) and
\* tau by its square root (tau = tau_root^2), so that the derived sigma,
\* tau ** (0.5 * (2 * alpha - 2)), is the integer tau_root ^ (alpha_h - 2).
\* sigma = None stands for "left unset".
NoGrfArgs == [nlat |-> 0, alpha_h |-> 0, tau_root |-> 0, sigma |-> None, radius |-> 1]

NoGrf ==
    [status |-> "none", err |-> "", args |-> NoGrfArgs, nlat |-> 0, sigma |-> 0,
     sqrt_eig |-> <<>>, device |-> "cpu", sampler_device |-> "cpu"]

\* Mutant of AlphaAdmissible: alpha = 1 passes the check.
AlphaAdmissible_Inclusive(alpha_h) == alpha_h >= 2

\* assert alpha > 1.0
AlphaAdmissible(alpha_h) == alpha_h > 2

\* sigma = tau ** (0.5 * (2 * alpha - 2.0))
DefaultSigma(tau_root, alpha_h) == Pow(tau_root, (2 * alpha_h - 4) \div 2)

\* One entry of the table: sigma * (num / den) ^ (-negexp / 4), or exactly 0.
ZeroEntry == [sigma |-> 0, num |-> 1, den |-> 1, negexp |-> 0]

\* sigma * ((j * (j + 1) / radius**2 + tau**2) ** (-alpha / 2))
Eigen(sigma, j, radius, tau_root, alpha_h) ==
    IF sigma = 0 THEN ZeroEntry
    ELSE [sigma |-> sigma,
          num |-> j * (j + 1) + Pow(tau_root, 4) * radius * radius,
          den |-> radius * radius,
          negexp |-> alpha_h]

\* The (nlat, nlat + 1) table: lower triangle kept (tril), entry [0, 0] set
\* to 0.  Row j + 1, column m + 1 holds degree j, order m.
SqrtEig(nlat, sigma, radius, tau_root, alpha_h) ==
    [jj \in 1..nlat |->
        [mm \in 1..(nlat + 1) |->
            IF mm > jj \/ (jj = 1 /\ mm = 1) THEN ZeroEntry
            ELSE Eigen(sigma, jj - 1, radius, tau_root, alpha_h)]]

GaussianRandomFieldS2_init(args) ==
    IF args.sigma = None /\ ~AlphaAdmissible(args.alpha_h)
    THEN [NoGrf EXCEPT !.status = "error", !.err = "AssertionError", !.args = args]
    ELSE LET sigma == IF args.sigma = None
                      THEN DefaultSigma(args.tau_root, args.alpha_h)
                      ELSE args.sigma
         IN  [status |-> "ok", err |-> "", args |-> args, nlat |-> args.nlat,
              sigma |-> sigma,
              sqrt_eig |-> SqrtEig(args.nlat, sigma, args.radius, args.tau_root,
                                   args.alpha_h),
              device |-> "cpu", sampler_device |-> "cpu"]

\* Noise tensors: a shape and the identity of their content.
NoNoise == [shape |-> <<>>, id |-> 0]

NoField == [shape |-> <<>>, xi |-> NoNoise, eig |-> <<>>]

NoGrfCall ==
    [status |-> "none", N |-> 0, given |-> FALSE, xi |-> NoNoise, u |-> NoField,
     draws |-> 0]

\* Tensor.squeeze(): every axis of size 1 is removed.
Squeeze(shape) == SelectSeq(shape, LAMBDA d : d # 1)

\* gaussian_noise.sample((N, nlat, nlat + 1, 2)).squeeze(), as complex; `id`
\* is the content the sampler returns.
SampleNoise(self, N, id) ==
    LET sq == Squeeze(<<N, self.nlat, self.nlat + 1, 2>>)
    IN  [shape |-> SubSeq(sq, 1, Len(sq) - 1), id |-> id]

\* isht(xi * sqrt_eig): sqrt_eig has shape (1, nlat, nlat + 1); the inverse
\* transform maps the last two axes onto the (nlat, 2 * nlat) grid.
Isht(self, xi) ==
    LET cs == Broadcast(xi.shape, <<1, self.nlat, self.nlat + 1>>)
    IN  [shape |-> SubSeq(cs, 1, Len(cs) - 2) \o <<self.nlat, 2 * self.nlat>>,
         xi |-> xi, eig |-> self.sqrt_eig]

\* Mutant of GaussianRandomFieldS2_forward: fresh noise is drawn even when
\* noise is supplied.
GaussianRandomFieldS2_forward_AlwaysSamples(self, N, xi, id) ==
    LET noise == SampleNoise(self, N, id)
    IN  [status |-> "ok", N |-> N, given |-> xi # NoNoise, xi |-> xi,
         u |-> Isht(self, noise), draws |-> 1]

\* forward(N, xi): xi = NoNoise stands for xi = None; `id` is what the
\* sampler returns if it is called.
GaussianRandomFieldS2_forward(self, N, xi, id) ==
    LET noise == IF xi = NoNoise THEN SampleNoise(self, N, id) ELSE xi
    IN  [status |-> "ok", N |-> N, given |-> xi # NoNoise, xi |-> xi,
         u |-> Isht(self, noise), draws |-> IF xi = NoNoise THEN 1 ELSE 0]

\* to(...) and cuda(): the layer is moved, then the sampler is re-created
\* from the moved mean and var buffers.
GaussianRandomFieldS2_to(self, device) ==
    [self EXCEPT !.device = device, !.sampler_device = device]

GrfArgs ==
    [nlat : 1..MaxGrfLat, alpha_h : 0..MaxAlphaHalves, tau_root : 1..MaxTauRoot,
     sigma : {None} \cup 0..MaxSigma, radius : 1..MaxRadius]

\* Explicit noise of size (batch, nlat, nlat + 1).
Noises(nlat) ==
    { [shape |-> <<b, nlat, nlat + 1>>, id |-> k] : b \in 1..MaxN, k \in 1..MaxNoise }

ConstructGaussianRandomFieldS2 ==
    /\ grf.status = "none"
    /\ \E args \in GrfArgs : grf' = GaussianRandomFieldS2_init(args)
    /\ UNCHANGED <<grfcall, convVars, dropVars, tnVars, fftVars, mlpVars>>

ForwardGaussianRandomFieldS2 ==
    /\ grf.status = "ok"
    /\ \E N \in 1..MaxN, xi \in Noises(grf.nlat) \cup {NoNoise}, id \in 1..MaxNoise :
        grfcall' = GaussianRandomFieldS2_forward(grf, N, xi, id)
    /\ UNCHANGED <<grf, convVars, dropVars, tnVars, fftVars, mlpVars>>

ToGaussianRandomFieldS2 ==
    /\ grf.status = "ok"
    /\ \E d \in {"cpu", "gpu"} : grf' = GaussianRandomFieldS2_to(grf, d)
    /\ UNCHANGED <<grfcall, convVars, dropVars, tnVars, fftVars, mlpVars>>

CudaGaussianRandomFieldS2 ==
    /\ grf.status = "ok"
    /\ grf' = GaussianRandomFieldS2_to(grf, "gpu")
    /\ UNCHANGED <<grfcall, convVars, dropVars, tnVars, fftVars, mlpVars>>

\* C8: construction fails exactly when sigma is unset and alpha <= 1; with
\* sigma unset and alpha > 1 it succeeds with sigma = tau^(alpha - 1)
\* (sigma^2 = tau^(2 alpha - 2)); a supplied sigma is used whatever alpha is.
C8_SigmaDefaultNeedsAlphaAboveOne ==
    grf.status # "none" =>
        /\ grf.status = "error" <=> (grf.args.sigma = None /\ grf.args.alpha_h <= 2)
        /\ (grf.status = "ok" /\ grf.args.sigma = None) =>
              grf.sigma * grf.sigma =
                  Pow(grf.args.tau_root * grf.args.tau_root, grf.args.alpha_h - 2)
        /\ grf.args.sigma # None => (grf.status = "ok" /\ grf.sigma = grf.args.sigma)

\* C8 witness: a construction with sigma unset that failed at the boundary
\* alpha = 1 (tau > 1, so that a derived sigma would differ from 1).
C8_Witness ==
    /\ grf.status = "error"
    /\ grf.args.sigma = None
    /\ grf.args.alpha_h = 2
    /\ grf.args.tau_root > 1

\* C9: a forward call given explicit noise draws nothing, returns
\* isht(xi * sqrt_eig) for the given xi and the table built at construction,
\* with xi's batch size whatever N is; the table is never changed after
\* construction, and a later call given the same xi returns the same field.
C9_ExplicitNoiseState ==
    ( grfcall.status = "ok" /\ grfcall.given ) =>
        /\ grfcall.draws = 0
        /\ grfcall.u.xi = grfcall.xi
        /\ grfcall.u.eig =
             SqrtEig(grf.args.nlat, grf.sigma, grf.args.radius, grf.args.tau_root,
                     grf.args.alpha_h)
        /\ grfcall.u.shape = <<grfcall.xi.shape[1], grf.nlat, 2 * grf.nlat>>

C9_ExplicitNoiseStep ==
    /\ (grf.status = "ok" => grf'.sqrt_eig = grf.sqrt_eig)
    /\ ( /\ grfcall.status = "ok" /\ grfcall.given
         /\ grfcall'.status = "ok" /\ grfcall'.given
         /\ grfcall'.xi = grfcall.xi ) => grfcall'.u = grfcall.u

C9_ExplicitNoiseIsUsedVerbatim ==
    [](C9_ExplicitNoiseState) /\ [][C9_ExplicitNoiseStep]_vars

\* C9 witness: a call given explicit noise whose batch size differs from N,
\* on a sampler with a non-zero table.
C9_Witness ==
    /\ grfcall.status = "ok"
    /\ grfcall.given
    /\ grfcall.N # grfcall.xi.shape[1]
    /\ grf.nlat > 1
    /\ grf.sigma > 0

-----------------------------------------------------------------------------
(* trunc_normal_ *)

Max(a, b) == IF a >= b THEN a ELSE b

\* math.sqrt(2.0), in fixed point.
Sqrt2 == 1414

\* The standard normal CDF at z = 0, 1, 2, 3, 4 in fixed point.  At this
\* resolution it is exactly 1 from z = 4 on (a double reaches 1.0 near
\* z = 8.3 in the same way).
PhiTable == <<500, 841, 977, 999, 1000>>

PhiOfNonNegative(z) ==
    IF z >= (Len(PhiTable) - 1) * Unit THEN Unit
    ELSE LET k == z \div Unit
         IN  PhiTable[k + 1] + ((PhiTable[k + 2] - PhiTable[k + 1]) * (z % Unit)) \div Unit

\* norm_cdf(x) = (1 + erf(x / sqrt(2))) / 2
norm_cdf(z) == IF z < 0 THEN Unit - PhiOfNonNegative(-z) ELSE PhiOfNonNegative(z)

\* The inverse of the CDF on [1/2, 1).
PhiInverseUpper(p) ==
    IF p >= PhiTable[Len(PhiTable)] THEN (Len(PhiTable) - 1) * Unit
    ELSE LET k == CHOOSE i \in 1..(Len(PhiTable) - 1) :
                     PhiTable[i] <= p /\ p < PhiTable[i + 1]
         IN  (k - 1) * Unit + ((p - PhiTable[k]) * Unit) \div (PhiTable[k + 1] - PhiTable[k])

\* Tensor.erfinv_ on a value of [-1, 1]: +-inf at +-1.
erfinv(y) ==
    IF y >= Unit THEN Inf(1)
    ELSE IF y <= -Unit THEN Inf(-1)
    ELSE LET p == (y + Unit) \div 2
             z == IF 2 * p < Unit THEN -PhiInverseUpper(Unit - p) ELSE PhiInverseUpper(p)
         IN  Fin((z * Unit) \div Sqrt2)

\* Mutant of clamp: the final clamp is left out.
clamp_Missing(v, a, b) == v

\* Tensor.clamp_(min=a, max=b) on one element.
clamp(v, a, b) ==
    IF v.k = "nan" THEN NaN
    ELSE IF v.k = "inf" THEN (IF v.v > 0 THEN Fin(b) ELSE Fin(Min(a, b)))
    ELSE Fin(Min(Max(v.v, a), b))

NoTn ==
    [status |-> "none", err |-> "", warned |-> FALSE, mean |-> 0, std |-> 0,
     a |-> 0, b |-> 0, returned |-> <<>>]

\* mean < a - 2 * std or mean > b + 2 * std
MeanFarOutside(mean, std, a, b) == (mean < a - 2 * std) \/ (mean > b + 2 * std)

\* tensor.uniform_(2 * l - 1, 2 * u - 1) on one element: the lower end, the
\* middle or the upper end of the range, as `pick` says.
uniform(l, u, pick) ==
    LET lo == 2 * l - Unit
        hi == 2 * u - Unit
    IN  IF pick = 1 THEN lo ELSE IF pick = 2 THEN (lo + hi) \div 2 ELSE hi

\* The fill after uniform_ drew y: erfinv_, mul_(std * sqrt(2)), add_(mean),
\* clamp_(a, b).
TransformDraw(y, mean, std, a, b) ==
    clamp(FAdd(FMul(erfinv(y), (std * Sqrt2) \div Unit), mean), a, b)

\* _no_grad_trunc_normal_(tensor, mean, std, a, b) on a tensor of n elements;
\* `pick` selects what uniform_ draws for each element.  The result holds the
\* call record and the tensor's new content.
trunc_normal_(n, mean, std, a, b, pick) ==
    LET warned == MeanFarOutside(mean, std, a, b)
    IN  IF std = 0
        THEN [call |-> [NoTn EXCEPT !.status = "error", !.err = "ZeroDivisionError",
                                    !.warned = warned, !.mean = mean, !.std = std,
                                    !.a = a, !.b = b],
              filled |-> FALSE, tensor |-> <<>>]
        ELSE LET l == norm_cdf(((a - mean) * Unit) \div std)
                 u == norm_cdf(((b - mean) * Unit) \div std)
                 drawn == [i \in 1..n |-> uniform(l, u, pick[i])]
                 tensor == [i \in 1..n |-> TransformDraw(drawn[i], mean, std, a, b)]
             IN  [call |-> [status |-> "ok", err |-> "", warned |-> warned,
                            mean |-> mean, std |-> std, a |-> a, b |-> b,
                            returned |-> tensor],
                  filled |-> TRUE, tensor |-> tensor]

\* Inputs: any buffer content; mean, cut-offs in whole units, std in halves
\* (0 included: the division by std then raises), a <= b.
Buffers == UNION { [1..n -> {Fin(0), Fin(2 * MaxCut * Unit), NaN}] : n \in 1..MaxBuf }
Means == { m * Unit : m \in (-MaxMean)..MaxMean }
Stds == { (h * Unit) \div 2 : h \in 0..MaxStdHalves }
Cuts == { c * Unit : c \in (-MaxCut)..MaxCut }

TruncNormal ==
    /\ tn.status = "none"
    /\ \E mean \in Means, std \in Stds, a \in Cuts, b \in Cuts :
        /\ a <= b
        /\ \E pick \in [1..Len(buf) -> 1..3] :
            LET r == trunc_normal_(Len(buf), mean, std, a, b, pick)
            IN  /\ tn' = r.call
                /\ buf' = IF r.filled THEN r.tensor ELSE buf
    /\ UNCHANGED <<convVars, dropVars, grfVars, fftVars, mlpVars>>

\* The same initialization run again on the same tensor.
TruncNormalAgain ==
    /\ tn.status # "none"
    /\ \E pick \in [1..Len(buf) -> 1..3] :
        LET r == trunc_normal_(Len(buf), tn.mean, tn.std, tn.a, tn.b, pick)
        IN  /\ tn' = r.call
            /\ buf' = IF r.filled THEN r.tensor ELSE buf
    /\ UNCHANGED <<convVars, dropVars, grfVars, fftVars, mlpVars>>

\* C10: for std > 0 and a <= b the call completes, with or without the
\* warning, returns the buffer, and every value of the buffer is a number v
\* with a <= v <= b; the warning is emitted exactly when mean is more than
\* 2 std outside [a, b].
C10_FilledWithinBounds ==
    /\ (tn.status # "none" /\ tn.std > 0) => tn.status = "ok"
    /\ tn.status # "none" => (tn.warned <=> MeanFarOutside(tn.mean, tn.std, tn.a, tn.b))
    /\ tn.status = "ok" =>
          /\ tn.returned = buf
          /\ \A i \in 1..Len(buf) :
                buf[i].k = "fin" /\ tn.a <= buf[i].v /\ buf[i].v <= tn.b

\* C10 witness: a call that warned (mean above b + 2 std), completed and
\* left every value within [a, b], a < b, on a buffer that held values out
\* of range.
C10_Witness ==
    /\ tn.status = "ok"
    /\ tn.warned
    /\ tn.mean > tn.b + 2 * tn.std
    /\ tn.a < tn.b
    /\ Len(buf) > 1
    /\ \A i \in 1..Len(buf) : buf[i].k = "fin" /\ tn.a <= buf[i].v /\ buf[i].v <= tn.b

-----------------------------------------------------------------------------
(* Inputs *)

Lats == 1..MaxLat
Lons == 1..MaxLon
Channels == 1..MaxCh

\* Transform pairs: any two grids; the forward transform's lmax is left to
\* its default or given explicitly (at most the grid's own extent), the other
\* truncations are left to their defaults.
ForwardTransforms ==
    { RealFFT2_init(nlat, nlon, lmax, 0) :
        nlat \in Lats, nlon \in Lons, lmax \in 0..MaxLat }

InverseTransforms ==
    { InverseRealFFT2_init(nlat, nlon, 0, 0) : nlat \in Lats, nlon \in Lons }

ValidTransform(t) == t.lmax <= t.nlat /\ t.mmax <= t.nlon \div 2 + 1

ConvArgs ==
    [fwd : {t \in ForwardTransforms : ValidTransform(t)},
     inv : {t \in InverseTransforms : ValidTransform(t)},
     in_channels : Channels, out_channels : Channels,
     operator_type : OperatorTypes \cup {"dense"},
     bias : BOOLEAN, separable : {FALSE}]

\* Input signals of a forward call: on the forward transform's grid, in any
\* dtype, holding a value the dtype can represent.
Signals(fwd) ==
    { Tensor(dt, <<Batch, c, fwd.nlat, fwd.nlon>>, v) :
        dt \in Dtypes, c \in Channels,
        v \in {w \in 0..MaxVal : w % Step("float16") = 0} } \cup
    { Tensor(dt, <<Batch, c, fwd.nlat, fwd.nlon>>, v) :
        dt \in {"float64", "float32"}, c \in Channels,
        v \in {w \in 0..MaxVal : w % Step("float32") = 0} } \cup
    { Tensor("float64", <<Batch, c, fwd.nlat, fwd.nlon>>, v) :
        c \in Channels, v \in 0..MaxVal }

-----------------------------------------------------------------------------
(* Actions of the spectral convolution *)

\* One operator object is followed from its construction on.
ConstructSpectralConvS2 ==
    /\ conv.status = "none"
    /\ \E args \in ConvArgs :
        /\ conv' = SpectralConvS2_init(args)
        /\ call' = NoCall
    /\ UNCHANGED <<dropVars, grfVars, tnVars, fftVars, mlpVars>>

ConstructFactorizedSpectralConvS2 ==
    /\ conv.status = "none"
    /\ \E args \in ConvArgs, separable \in BOOLEAN :
        /\ conv' = FactorizedSpectralConvS2_init([args EXCEPT !.separable = separable])
        /\ call' = NoCall
    /\ UNCHANGED <<dropVars, grfVars, tnVars, fftVars, mlpVars>>

ForwardSpectralConvS2 ==
    /\ conv.status = "ok"
    /\ conv.cls = "SpectralConvS2"
    /\ \E x \in Signals(conv.args.fwd) :
        call' = SpectralConvS2_forward(conv, x)
    /\ UNCHANGED <<conv, dropVars, grfVars, tnVars, fftVars, mlpVars>>

-----------------------------------------------------------------------------
(* RealFFT2 on its own: which rows and columns of the full transform the    *)
(* forward pass keeps.                                                      *)

\* seq[:k] for k >= 0.
PyPrefix(seq, k) == SubSeq(seq, 1, Min(k, Len(seq)))

\* seq[-k:] for k >= 0; -0 is 0, so seq[-0:] is seq[0:], the whole sequence.
PySuffix(seq, k) ==
    IF k = 0 THEN seq
    ELSE SubSeq(seq, Len(seq) - Min(k, Len(seq)) + 1, Len(seq))

\* The 0-based indices along an axis of length n.
AxisIndices(n) == [i \in 1..n |-> i - 1]

\* The rows of the full transform (one per input row) that forward keeps, in
\* the order of the concatenation.
RealFFT2_rows(self, x) ==
    PyPrefix(AxisIndices(x.shape[3]), CeilHalf(self.lmax))
        \o PySuffix(AxisIndices(x.shape[3]), FloorHalf(self.lmax))

\* The columns of the full transform (n // 2 + 1 of them for n input columns)
\* that forward keeps.
RealFFT2_cols(self, x) == PyPrefix(AxisIndices(x.shape[4] \div 2 + 1), self.mmax)

NoFft == [status |-> "none", self |-> RealFFT2_init(0, 0, 0, 0)]

NoFftCall == [status |-> "none", x |-> NoTensor, y |-> NoTensor, rows |-> <<>>, cols |-> <<>>]

\* Constructor arguments: lmax and mmax left to their defaults (0) or given;
\* the constructor does not validate them.
FftArgs ==
    [nlat : Lats, nlon : Lons, lmax : 0..MaxLat, mmax : 0..(MaxLon \div 2 + 1)]

\* One transform object is followed from its construction on.
ConstructRealFFT2 ==
    /\ fft.status = "none"
    /\ \E a \in FftArgs :
        fft' = [status |-> "ok", self |-> RealFFT2_init(a.nlat, a.nlon, a.lmax, a.mmax)]
    /\ UNCHANGED <<fftcall, convVars, dropVars, grfVars, tnVars, mlpVars>>

\* A forward call on a signal of the transform's own grid.
ForwardRealFFT2 ==
    /\ fft.status = "ok"
    /\ \E x \in Signals(fft.self) :
        fftcall' = [status |-> "ok", x |-> x,
                    y |-> RealFFT2_forward(fft.self, x),
                    rows |-> RealFFT2_rows(fft.self, x),
                    cols |-> RealFFT2_cols(fft.self, x)]
    /\ UNCHANGED <<fft, convVars, dropVars, grfVars, tnVars, mlpVars>>

-----------------------------------------------------------------------------
(* MLP *)

NoMlpArgs ==
    [in_features |-> 0, hidden_features |-> 0, out_features |-> 0,
     output_bias |-> FALSE, drop_rate |-> 0, checkpointing |-> FALSE, gain |-> Unit]

NoMlp ==
    [status |-> "none", err |-> "none", args |-> NoMlpArgs, training |-> FALSE,
     in_features |-> 0, hidden_features |-> 0, out_features |-> 0, fwd |-> <<>>]

MlpRaised(args, err) == [NoMlp EXCEPT !.status = "raised", !.err = err, !.args = args]

\* Mutant of MLP_stages: the dropout layer is listed once, before the second
\* projection only.
MLP_stages_SingleDropout(drop_rate) ==
    IF drop_rate > 0
    THEN <<"fc1", "act", "drop", "fc2">>
    ELSE <<"fc1", "act", "fc2">>

\* The stages of self.fwd, in the order nn.Sequential holds and calls them.
MLP_stages(drop_rate) ==
    IF drop_rate > 0
    THEN <<"fc1", "act", "drop", "fc2", "drop">>
    ELSE <<"fc1", "act", "fc2">>

\* MLP.__init__; keyword_accepted tells whether init_normal_ takes the keyword
\* the second-layer initialization passes to it.
MLP_init(args, keyword_accepted) ==
    LET out_features == PyOr(args.out_features, args.in_features)
        hidden_features == PyOr(args.hidden_features, args.in_features)
    IN  IF args.checkpointing THEN MlpRaised(args, "AssertionError")
        ELSE IF args.gain < 0 THEN MlpRaised(args, "ValueError")
        ELSE IF ~keyword_accepted THEN MlpRaised(args, "TypeError")
        ELSE [status |-> "ok", err |-> "none", args |-> args, training |-> TRUE,
              in_features |-> args.in_features,
              hidden_features |-> hidden_features,
              out_features |-> out_features,
              fwd |-> MLP_stages(args.drop_rate)]

NoMlpCall ==
    [status |-> "none", err |-> "none", training |-> FALSE,
     x |-> NoTensor, y |-> NoTensor, called |-> <<>>]

\* One stage of self.fwd applied to x: a 1x1 convolution maps the channel
\* axis, the activation keeps the shape, and the dropout zeroes or keeps
\* (and rescales) a whole channel in training mode and is the identity in
\* evaluation mode.  keep is the mask drawn for the channel followed.
Stage(self, name, x, keep) ==
    CASE name = "fc1" ->
            Applied(x, "fc1", <<self.in_features, self.hidden_features>>,
                    <<x.shape[1], self.hidden_features, x.shape[3], x.shape[4]>>, FALSE)
      [] name = "fc2" ->
            Applied(x, "fc2", <<self.hidden_features, self.out_features>>,
                    <<x.shape[1], self.out_features, x.shape[3], x.shape[4]>>, FALSE)
      [] name = "act" -> Applied(x, "act", <<>>, x.shape, FALSE)
      [] OTHER ->
            IF self.training THEN Applied(x, "drop", <<keep>>, x.shape, FALSE) ELSE x

\* nn.Sequential.forward: every stage is called, in order, on the result of
\* the one before; masks[i] is the mask stage i draws if it is a dropout.
RECURSIVE Sequential_forward(_, _, _, _)
Sequential_forward(self, i, x, masks) ==
    IF i > Len(self.fwd) THEN x
    ELSE Sequential_forward(self, i + 1, Stage(self, self.fwd[i], x, masks[i]), masks)

\* MLP.forward; the first convolution rejects a channel count other than
\* in_features.
MLP_forward(self, x, masks) ==
    IF self.args.checkpointing
    THEN [NoMlpCall EXCEPT !.status = "raised", !.err = "NotImplementedError", !.x = x]
    ELSE IF x.shape[2] # self.in_features
    THEN [NoMlpCall EXCEPT !.status = "raised", !.err = "ValueError", !.x = x]
    ELSE [status |-> "ok", err |-> "none", training |-> self.training, x |-> x,
          y |-> Sequential_forward(self, 1, x, masks),
          called |-> self.fwd]

\* The masks a dropout of rate p can draw for one channel: 1 (kept) or
\* 0 (zeroed); p = 1 zeroes everything.
Masks(p) == IF p >= Unit THEN {0} ELSE IF p <= 0 THEN {1} ELSE {0, 1}

MlpArgs ==
    [in_features : Channels, hidden_features : 0..MaxCh, out_features : 0..MaxCh,
     output_bias : BOOLEAN, drop_rate : Probs, checkpointing : BOOLEAN,
     gain : {-Unit, Unit}]

MlpSignals ==
    { Tensor("float32", <<Batch, c, 1, 1>>, v) :
        c \in Channels, v \in {w \in 0..MaxVal : w % Step("float32") = 0} }

\* One block is followed from its construction on.
ConstructMLP ==
    /\ mlp.status = "none"
    /\ \E args \in MlpArgs, keyword_accepted \in BOOLEAN :
        mlp' = MLP_init(args, keyword_accepted)
    /\ UNCHANGED <<mlpcall, convVars, dropVars, grfVars, tnVars, fftVars>>

\* train() / eval() on the block reach its dropout sublayer.
SetTrainingMLP ==
    /\ mlp.status = "ok"
    /\ mlp' = [mlp EXCEPT !.training = ~@]
    /\ UNCHANGED <<mlpcall, convVars, dropVars, grfVars, tnVars, fftVars>>

ForwardMLP ==
    /\ mlp.status = "ok"
    /\ \E x \in MlpSignals :
       \E masks \in [1..Len(mlp.fwd) -> Masks(mlp.args.drop_rate)] :
        mlpcall' = MLP_forward(mlp, x, masks)
    /\ UNCHANGED <<mlp, convVars, dropVars, grfVars, tnVars, fftVars>>

\* Nothing constructed, nothing called.
Init ==
    /\ conv = NoConv
    /\ call = NoCall
    /\ layer = NoLayer
    /\ dpcall = NoDropCall
    /\ grf = NoGrf
    /\ grfcall = NoGrfCall
    /\ buf = <<>>
    /\ tn = NoTn
    /\ fft = NoFft
    /\ fftcall = NoFftCall
    /\ mlp = NoMlp
    /\ mlpcall = NoMlpCall

\* The same, with a buffer allocated for the initializer (any content).
InitTn ==
    /\ conv = NoConv
    /\ call = NoCall
    /\ layer = NoLayer
    /\ dpcall = NoDropCall
    /\ grf = NoGrf
    /\ grfcall = NoGrfCall
    /\ buf \in Buffers
    /\ tn = NoTn
    /\ fft = NoFft
    /\ fftcall = NoFftCall
    /\ mlp = NoMlp
    /\ mlpcall = NoMlpCall

NextConv ==
    \/ ConstructSpectralConvS2
    \/ ConstructFactorizedSpectralConvS2
    \/ ForwardSpectralConvS2

SpecConv == Init /\ [][NextConv]_vars

NextDrop ==
    \/ ConstructDropPath
    \/ SetTraining
    \/ ForwardDropPath
    \/ CallDropPath

SpecDrop == Init /\ [][NextDrop]_vars

NextGrf ==
    \/ ConstructGaussianRandomFieldS2
    \/ ForwardGaussianRandomFieldS2
    \/ ToGaussianRandomFieldS2
    \/ CudaGaussianRandomFieldS2

SpecGrf == Init /\ [][NextGrf]_vars

NextTn ==
    \/ TruncNormal
    \/ TruncNormalAgain

SpecTn == InitTn /\ [][NextTn]_vars

NextFft ==
    \/ ConstructRealFFT2
    \/ ForwardRealFFT2

SpecFft == Init /\ [][NextFft]_vars

NextMlp ==
    \/ ConstructMLP
    \/ SetTrainingMLP
    \/ ForwardMLP

SpecMlp == Init /\ [][NextMlp]_vars

-----------------------------------------------------------------------------
(* Claims on the spectral convolution *)

EqualResolution ==
    /\ conv.args.fwd.nlat = conv.args.inv.nlat
    /\ conv.args.fwd.nlon = conv.args.inv.nlon

SameTruncation ==
    /\ conv.args.fwd.lmax = conv.args.inv.lmax
    /\ conv.args.fwd.mmax = conv.args.inv.mmax

\* The value a float32 holds after a cast from the input's dtype.
InSinglePrecision(x) == IF x.dtype = "float64" THEN x.val - (x.val % 2) ELSE x.val

FwdOp == [op |-> "RealFFT2", par |-> <<conv.args.fwd.lmax, conv.args.fwd.mmax>>]
InvOp == [op |-> "InverseRealFFT2", par |-> <<conv.args.inv.nlat, conv.args.inv.nlon>>]

\* C1 as stated: SpectralConvS2.forward returns a residual that is the
\* original input exactly (same values, same shape, nothing applied) when the
\* two transforms have the same (nlat, nlon), and that is
\* inverse_transform(forward_transform(input)) of the input's own values
\* otherwise.
C1_ResidualIsRawInput ==
    call.status = "ok" =>
        /\ call.residual.val = call.x.val
        /\ IF EqualResolution
           THEN call.residual.hist = <<>> /\ call.residual.shape = call.x.shape
           ELSE call.residual.hist = <<FwdOp, InvOp>> /\ call.residual # call.x

\* C1 amended: the residual is built from the input cast to float32.  With
\* equal (nlat, nlon) it is that cast input, nothing else applied (the input
\* itself when the input is float32); with differing nlat or nlon it is
\* inverse_transform(forward_transform(cast input)) on the inverse
\* transform's grid, and is not the raw input.  The output is
\* inverse(contract(forward(cast input))) plus the optional bias, cast back:
\* the residual is never added to it.
C1_ResidualOfCastInput ==
    call.status = "ok" =>
        /\ call.residual.dtype = "float32"
        /\ call.residual.val = InSinglePrecision(call.x)
        /\ IF EqualResolution
           THEN /\ call.residual.hist = <<>>
                /\ call.residual.shape = call.x.shape
                /\ (call.x.dtype = "float32" => call.residual = call.x)
           ELSE /\ call.residual.hist = <<FwdOp, InvOp>>
                /\ call.residual.shape =
                     <<call.x.shape[1], call.x.shape[2],
                       conv.args.inv.nlat, conv.args.inv.nlon>>
                /\ call.residual # call.x
        /\ Len(call.out.hist) >= 3
        /\ call.out.hist[1] = FwdOp
        /\ call.out.hist[2] = [op |-> conv.args.operator_type, par |-> conv.weight]
        /\ call.out.hist[3] = InvOp
        /\ \A i \in 4..Len(call.out.hist) : call.out.hist[i].op \in {"bias", "round"}
        /\ call.out.dtype = call.x.dtype

\* C1 witness: a forward call that returned on a pair differing in nlat, on a
\* float64 input whose value float32 cannot hold.
C1_Witness ==
    /\ call.status = "ok"
    /\ conv.args.fwd.nlat # conv.args.inv.nlat
    /\ call.x.dtype = "float64"
    /\ call.x.val % 2 = 1
    /\ call.residual.hist = <<FwdOp, InvOp>>

\* C2: a diagonal SpectralConvS2 with in_channels = out_channels can be
\* constructed on every equal-resolution transform pair (modes_lat and
\* modes_lon may differ), and its forward pass (modes_lat > 1) on a float32
\* input with in_channels channels returns an output of the input's shape and the input
\* as residual.
C2_DiagonalOnAnyEqualResolutionPair ==
    ( /\ conv.cls = "SpectralConvS2"
      /\ conv.status # "none"
      /\ conv.args.operator_type = "diagonal"
      /\ conv.args.in_channels = conv.args.out_channels
      /\ EqualResolution
      /\ SameTruncation ) =>
        /\ conv.status = "ok"
        /\ ( /\ call.status # "none"
             /\ call.x.dtype = "float32"
             /\ call.x.shape[2] = conv.args.in_channels
             /\ conv.args.fwd.lmax > 1 ) =>
               /\ call.status = "ok"
               /\ call.out.shape = call.x.shape
               /\ call.residual = call.x

\* C3: every argument set SpectralConvS2 accepts, FactorizedSpectralConvS2
\* accepts too.
C3_FactorizedAcceptsWhatDenseAccepts ==
    ( /\ conv.cls = "FactorizedSpectralConvS2"
      /\ conv.status # "none"
      /\ SpectralConvS2_init([conv.args EXCEPT !.separable = FALSE]).status = "ok" ) =>
        conv.status = "ok"

\* C4: SpectralConvS2 construction fails with an assertion whenever the
\* forward transform's lmax/mmax differ from the operator's
\* modes_lat/modes_lon (taken from the inverse transform).
C4_TruncationMismatchIsFatal ==
    ( /\ conv.cls = "SpectralConvS2"
      /\ conv.status # "none"
      /\ ~SameTruncation ) =>
        conv.status = "error" /\ conv.err = "AssertionError"

\* C5: an operator_type outside {diagonal, block-diagonal, driscoll-healy}
\* makes construction fail before any weight is created, for both classes
\* (NotImplementedError for SpectralConvS2): no operator with such a type
\* exists and no forward pass ever runs on one.
C5_UnknownOperatorTypeFailsAtConstruction ==
    /\ ( conv.status # "none" /\ conv.args.operator_type \notin OperatorTypes ) =>
          /\ conv.status = "error"
          /\ conv.weight = <<>>
          /\ call.status = "none"
          /\ (conv.cls = "SpectralConvS2" => conv.err = "NotImplementedError")
    /\ conv.status = "ok" => conv.args.operator_type \in OperatorTypes
    /\ call.status # "none" => conv.args.operator_type \in OperatorTypes

\* C5 witness: SpectralConvS2 construction raised NotImplementedError on an
\* unknown operator_type.
C5_Witness ==
    /\ conv.cls = "SpectralConvS2"
    /\ conv.status = "error"
    /\ conv.err = "NotImplementedError"
    /\ conv.args.operator_type \notin OperatorTypes

-----------------------------------------------------------------------------
(* Claims on RealFFT2 *)

\* The truncation the transform advertises lies within the grid's transform.
TruncationInRange ==
    /\ 1 <= fft.self.lmax /\ fft.self.lmax <= fft.self.nlat
    /\ 1 <= fft.self.mmax /\ fft.self.mmax <= fft.self.nlon \div 2 + 1

\* C11: for every 1 <= lmax <= nlat and 1 <= mmax <= nlon // 2 + 1, the
\* forward pass returns exactly lmax rows and mmax columns: the first
\* ceil(lmax / 2) rows of the full transform followed by its last
\* floor(lmax / 2) rows (none when that number is 0), and its first mmax
\* columns.
C11_TruncatedToAdvertisedExtent ==
    (fftcall.status = "ok" /\ TruncationInRange) =>
        LET lmax == fft.self.lmax
            nlat == fft.self.nlat
        IN  /\ Len(fftcall.rows) = lmax
            /\ Len(fftcall.cols) = fft.self.mmax
            /\ fftcall.y.shape[3] = lmax
            /\ fftcall.y.shape[4] = fft.self.mmax
            /\ \A i \in 1..Len(fftcall.rows) :
                   fftcall.rows[i] = IF i <= CeilHalf(lmax) THEN i - 1
                                     ELSE nlat - FloorHalf(lmax) + (i - CeilHalf(lmax)) - 1
            /\ \A j \in 1..Len(fftcall.cols) : fftcall.cols[j] = j - 1

-----------------------------------------------------------------------------
(* Claims on the MLP *)

\* The number of stages named name among the stages called.
Count(called, name) == Cardinality({i \in 1..Len(called) : called[i] = name})

\* C12: a forward pass calls the first projection, the activation, the
\* dropout (only when drop_rate > 0) and the second projection, in that
\* order; the second projection is the last stage, so the dropout is applied
\* at most once and the last operation on the output is the second projection.
C12_SecondProjectionIsLastStage ==
    mlpcall.status = "ok" =>
        /\ mlpcall.called = IF mlp.args.drop_rate > 0
                            THEN <<"fc1", "act", "drop", "fc2">>
                            ELSE <<"fc1", "act", "fc2">>
        /\ mlpcall.called[Len(mlpcall.called)] = "fc2"
        /\ Count(mlpcall.called, "drop") <= 1
        /\ mlpcall.y.hist[Len(mlpcall.y.hist)].op = "fc2"

\* The operations applied to the output of the call, in order.
OutputOps == [i \in 1..Len(mlpcall.y.hist) |-> mlpcall.y.hist[i].op]

\* C12 (as the code has it): with drop_rate > 0 a forward pass calls the first
\* projection, the activation, the dropout, the second projection and the
\* same dropout again, so in training mode the last operation on the output
\* is a dropout; with drop_rate = 0 it calls the first projection, the
\* activation and the second projection, and in evaluation mode the dropout
\* stages leave their input as it is.
C12_DropoutFollowsEachProjection ==
    mlpcall.status = "ok" =>
        /\ mlpcall.called = IF mlp.args.drop_rate > 0
                            THEN <<"fc1", "act", "drop", "fc2", "drop">>
                            ELSE <<"fc1", "act", "fc2">>
        /\ OutputOps = IF mlp.args.drop_rate > 0 /\ mlpcall.training
                       THEN <<"fc1", "act", "drop", "fc2", "drop">>
                       ELSE <<"fc1", "act", "fc2">>
        /\ mlpcall.y.shape[2] = mlp.out_features

\* C12 witness: a training-mode call of a block with drop_rate > 0 whose
\* first dropout kept the channel and whose trailing dropout zeroed the
\* output of the second projection.
C12_Witness ==
    /\ mlpcall.status = "ok"
    /\ mlpcall.training
    /\ mlp.args.drop_rate > 0
    /\ Len(mlpcall.y.hist) = Len(mlpcall.called)
    /\ mlpcall.called[Len(mlpcall.called) - 1] = "fc2"
    /\ mlpcall.y.hist[3] = [op |-> "drop", par |-> <<1>>]
    /\ mlpcall.y.hist[Len(mlpcall.y.hist)] = [op |-> "drop", par |-> <<0>>]

====
